---- MODULE Spec2Model ----
(***************************************************************************)
(* State-machine model of the PythonTA reporters:                          *)
(*   python_ta/reporters/core.py            (PythonTaReporter, NewMessage) *)
(*   python_ta/reporters/plain_reporter.py  (PlainReporter)                *)
(*                                                                         *)
(* Python values are encoded as follows.                                   *)
(*   - an Optional value is a sequence of length <= 1: <<>> is None and    *)
(*     <<v>> is the value v;                                               *)
(*   - a str is a sequence of one-character strings; a message text is a   *)
(*     sequence of word tokens, "\n" being the line-break token;           *)
(*   - a dict is a sequence of [key, val] records in insertion order;      *)
(*   - self.messages (a defaultdict) is a function whose DOMAIN is the set *)
(*     of keys the dict holds.                                             *)
(***************************************************************************)
EXTENDS Integers, Sequences, FiniteSets, TLC

VARIABLES
    messages,      \* self.messages: file path -> list of Message / NewMessage
    source_lines,  \* self.source_lines
    module_name,   \* self.module_name
    current_file,  \* self.current_file
    next_uid,      \* identity of the next Message object the host creates
    recorded_in,   \* history: uid -> the file that was current at handle_message
    op,            \* history: the last operation, whether it raised, what it wrote
    probe,         \* the last application of _add_line on drawn inputs (SpecAddLine)
    out,           \* self.out: the stream the report is written to
    should_close_out,  \* self.should_close_out
    opened,        \* the files set_output opened, in order, each open or closed
    closed_streams \* the streams of the caller (sys.stdout included) that are closed

vars == <<messages, source_lines, module_name, current_file, next_uid,
          recorded_in, op, probe, out, should_close_out, opened, closed_streams>>

\* the state of the output destination
outputVars == <<out, should_close_out, opened, closed_streams>>

----------------------------------------------------------------------------
(* Bounds of the model *)

\* total number of Message objects the host hands to handle_message
MaxMsgs == 2
\* total number of NewMessage layers handle_node may build in one run
MaxWrap == 2
\* largest column drawn for a slice bound in SpecAddLine (lines have <= 3 chars)
MaxCol == 4
\* total number of files set_output opens in one run
MaxOpens == 2

----------------------------------------------------------------------------
(* Python helpers *)

NONE == <<>>
Some(x) == <<x>>
IsNone(o) == o = <<>>
Val(o) == o[1]

Min(a, b) == IF a < b THEN a ELSE b
Max(a, b) == IF a > b THEN a ELSE b

\* n * " "  (a non-positive repeat count gives the empty string)
Repeat(c, n) == [i \in 1..Max(n, 0) |-> c]

\* Python's clamping of a slice bound against a sequence of length L
SliceIndex(i, L) == IF i < 0 THEN Max(i + L, 0) ELSE Min(i, L)

\* text[start:stop] with start, stop Optional integers (step 1)
PySlice(text, start, stop) ==
    LET L  == Len(text)
        lo == IF IsNone(start) THEN 0 ELSE SliceIndex(Val(start), L)
        hi == IF IsNone(stop) THEN L ELSE SliceIndex(Val(stop), L)
    IN  SubSeq(text, lo + 1, hi)

\* `x or d` for an Optional integer x: None and 0 are both falsy
OrDefault(x, d) == IF IsNone(x) \/ Val(x) = 0 THEN d ELSE Val(x)

\* s.startswith(p)
StartsWith(s, p) == Len(s) >= Len(p) /\ SubSeq(s, 1, Len(p)) = p

RECURSIVE LStripSpaces(_)
\* text.lstrip(" ")
LStripSpaces(s) ==
    IF s # <<>> /\ Head(s) = " " THEN LStripSpaces(Tail(s)) ELSE s

RECURSIVE RStripNewline(_)
\* line.rstrip("\r\n")
RStripNewline(s) ==
    IF s # <<>> /\ s[Len(s)] \in {"\r", "\n"}
    THEN RStripNewline(SubSeq(s, 1, Len(s) - 1))
    ELSE s

RECURSIVE FirstLine(_)
\* msg.split("\n")[0]
FirstLine(s) ==
    IF s = <<>> \/ Head(s) = "\n" THEN <<>> ELSE <<Head(s)>> \o FirstLine(Tail(s))

----------------------------------------------------------------------------
(* Module-level constants of core.py *)

NO_SNIPPET ==
    {"invalid-name", "unknown-option-value", "module-name-violation",
     "config-parse-error", "useless-option-value", "unrecognized-option"}

\* ERROR_CHECKS: the checks reported in the errors section
ERROR_CHECKS ==
    {"used-before-assignment", "undefined-variable",
     "undefined-loop-variable", "not-in-loop", "return-outside-function",
     "duplicate-key", "unreachable", "pointless-statement",
     "pointless-string-statement", "no-member", "not-callable",
     "assignment-from-no-return", "assignment-from-none",
     "no-value-for-parameter", "too-many-function-args",
     "invalid-sequence-index", "invalid-slice-index", "invalid-slice-step",
     "invalid-unary-operand-type", "unsupported-binary-operation",
     "unsupported-membership-test", "unsubscriptable-object",
     "unbalanced-tuple-unpacking", "unbalanced-dict-unpacking",
     "unpacking-non-sequence", "function-redefined",
     "duplicate-argument-name", "import-error", "no-name-in-module",
     "non-parent-init-called", "access-member-before-definition",
     "method-hidden", "unexpected-special-method-signature",
     "inherit-non-class", "duplicate-except", "bad-except-order",
     "raising-bad-type", "raising-non-exception", "catching-non-exception",
     "bad-indentation", "E0001", "unexpected-keyword-arg", "not-an-iterable",
     "nonexistent-operator", "invalid-length-returned", "abstract-method",
     "self-cls-assignment", "dict-iter-missing-items",
     "super-without-brackets", "modified-iterating-list",
     "modified-iterating-dict", "modified-iterating-set",
     "missing-return-statement", "invalid-range-index", "one-iteration",
     "possibly-undefined", "incompatible-argument-type",
     "incompatible-assignment", "list-item-type-mismatch",
     "unsupported-operand-types", "union-attr-error",
     "dict-item-type-mismatch", "forbidden-import",
     "forbidden-python-syntax", "forbidden-top-level-code"}

\* msg.msg.startswith("Invalid module")
ModuleErrorSentinel == <<"Invalid", "module">>

\* rendering constants of PythonTaReporter
PRE_LINE_NUM_SPACES == 2
NUM_LENGTH_SPACES == 3
AFTER_NUM_SPACES == 2
SPACE == " "
BREAK == "\n"

LineTypes == {"ERROR", "CONTEXT", "OTHER", "DOCSTRING"}

----------------------------------------------------------------------------
(* The host: the file system, the rules and the values it passes in *)

\* what is on disk: the source file "a.py" and the config file "cfg" exist
\* and decode as UTF-8; nothing else exists
FileExists(p) == p \in {"a.py", "cfg"}
\* whether open(p, encoding="utf-8") and f.readlines() succeed
FileReadable(p) == p \in {"a.py", "cfg"}

\* the (module, filepath) pairs the host announces: a source file, a config
\* file named by its path alone, a module with no file, a file that cannot
\* be read
ModuleEvents ==
    { <<"a", Some("a.py")>>, <<"cfg", NONE>>, <<"a", NONE>>,
      <<"nx", Some("nx.py")>> }

\* the raw lines of a readable file, with their line endings
FileRawLines(p) ==
    IF p = "a.py"
    THEN << <<"x", "=", "1", "\n">>, <<" ", "y", "\r", "\n">> >>
    ELSE << <<"k", "\n">> >>

\* pylint's message definitions: msgid and symbol come in fixed pairs
Rules ==
    { [msg_id |-> "E0602", symbol |-> "undefined-variable"],
      [msg_id |-> "E0001", symbol |-> "syntax-error"],
      [msg_id |-> "C0103", symbol |-> "invalid-name"],
      [msg_id |-> "C0303", symbol |-> "trailing-whitespace"] }

MsgIds == {r.msg_id : r \in Rules}
SymbolOf(id) == (CHOOSE r \in Rules : r.msg_id = id).symbol

\* the Message values the host emits (uid is the identity of the object)
MessageValues ==
    { [msg_id |-> "E0602", msg |-> <<"Undefined", "\n", "detail">>,
       line |-> 1, column |-> 1, end_column |-> Some(2)],
      [msg_id |-> "E0001", msg |-> <<"Invalid", "module", "m">>,
       line |-> 1, column |-> 0, end_column |-> NONE],
      [msg_id |-> "C0103", msg |-> <<"Invalid", "name">>,
       line |-> 2, column |-> 1, end_column |-> NONE] }

Message(v, uid) ==
    [kind |-> "Message", uid |-> uid, msg_id |-> v.msg_id,
     symbol |-> SymbolOf(v.msg_id), msg |-> v.msg, line |-> v.line,
     column |-> v.column, end_column |-> v.end_column]

\* astroid nodes, by the line their construct starts on
Nodes == { [fromlineno |-> 1] }

----------------------------------------------------------------------------
(* NewMessage *)

NewMessage(message, node, snippet) ==
    [kind |-> "NewMessage", message |-> message, node |-> node,
     snippet |-> snippet]

OwnAttrs(m) ==
    IF m.kind = "NewMessage" THEN {"message", "node", "snippet"}
    ELSE {"uid", "msg_id", "symbol", "msg", "line", "column", "end_column"}

RECURSIVE HasAttr(_, _)
\* whether m.<item> resolves (NewMessage.__getattr__ forwards to self.message)
HasAttr(m, item) ==
    IF item \in OwnAttrs(m) THEN TRUE
    ELSE IF m.kind = "NewMessage" THEN HasAttr(m.message, item)
    ELSE FALSE

RECURSIVE GetAttr(_, _)
\* m.<item>
GetAttr(m, item) ==
    IF item \in OwnAttrs(m) THEN m[item] ELSE GetAttr(m.message, item)

RECURSIVE WrapDepth(_)
\* number of NewMessage layers around the Message
WrapDepth(m) == IF m.kind = "NewMessage" THEN 1 + WrapDepth(m.message) ELSE 0

----------------------------------------------------------------------------
(* Rendering of one snippet line *)

\* _colourify: the plain reporter returns the text itself
Colourify(colour_class, text) == text

Digit(d) == <<"0", "1", "2", "3", "4", "5", "6", "7", "8", "9">>[d + 1]

RECURSIVE Decimal(_)
Decimal(n) == IF n < 10 THEN <<Digit(n)>> ELSE Decimal(n \div 10) \o <<Digit(n % 10)>>

\* "{:>3}".format(lineno)
FormatNumber(n) == Repeat(SPACE, NUM_LENGTH_SPACES - Len(Decimal(n))) \o Decimal(n)

\* _add_line_number
AddLineNumber(lineno, linetype) ==
    LET pre_spaces == Repeat(SPACE, PRE_LINE_NUM_SPACES)
        spaces     == Repeat(SPACE, AFTER_NUM_SPACES)
        number     == IF ~IsNone(lineno) THEN FormatNumber(Val(lineno))
                      ELSE Repeat(SPACE, NUM_LENGTH_SPACES)
    IN  CASE linetype = "ERROR"     -> pre_spaces \o Colourify("gbold-line", number) \o spaces
          [] linetype = "CONTEXT"   -> pre_spaces \o Colourify("grey-line", number) \o spaces
          [] linetype = "OTHER"     -> pre_spaces \o Colourify("grey-line", number) \o spaces
          [] linetype = "DOCSTRING" -> pre_spaces \o Colourify("black-line", number) \o spaces
          [] OTHER                  -> pre_spaces \o number \o spaces

\* the three pieces of an ERROR line, as PythonTaReporter._add_line cuts them
PreSpan(text, slice) == PySlice(text, NONE, Some(OrDefault(slice.start, 0)))
Span(text, slice) == PySlice(text, slice.start, slice.stop)
PostSpan(text, slice) == PySlice(text, Some(OrDefault(slice.stop, Len(text))), NONE)

\* PythonTaReporter._add_line
CoreAddLine(lineno, linetype, slice, text) ==
    LET number == AddLineNumber(lineno, linetype)
        body ==
          CASE linetype = "ERROR" ->
                 (IF PreSpan(text, slice) # <<>>
                  THEN Colourify("black", PreSpan(text, slice)) ELSE <<>>)
                 \o Colourify("highlight", Span(text, slice))
                 \o (IF PostSpan(text, slice) # <<>>
                     THEN Colourify("black", PostSpan(text, slice)) ELSE <<>>)
            [] linetype = "CONTEXT" -> Colourify("grey", text)
            [] linetype = "OTHER" -> text
            [] linetype = "DOCSTRING" ->
                 Repeat(SPACE, Len(text) - Len(LStripSpaces(text)))
                 \o Colourify("highlight", LStripSpaces(text))
            [] OTHER -> <<>>
    IN  number \o body \o <<BREAK>>

\* PlainReporter._overline_helper ("~" stands for the overline U+203E)
OverlineHelper(text, prespace) == prespace \o Repeat("~", Len(text)) \o <<BREAK>>

\* PlainReporter._add_line
AddLine(lineno, linetype, slice, text) ==
    LET lineno_spaces == PRE_LINE_NUM_SPACES + NUM_LENGTH_SPACES + AFTER_NUM_SPACES
        snippet_so_far == CoreAddLine(lineno, linetype, slice, text)
    IN  CASE linetype = "ERROR" ->
               snippet_so_far
               \o OverlineHelper(Span(text, slice),
                                 Repeat(SPACE, lineno_spaces + OrDefault(slice.start, 0)))
          [] linetype = "DOCSTRING" ->
               snippet_so_far
               \o OverlineHelper(LStripSpaces(text),
                                 Repeat(SPACE, lineno_spaces + Len(text)
                                               - Len(LStripSpaces(text))))
          [] OTHER -> snippet_so_far

\* node_printers.render_message: the snippet plan, a sequence of
\* (lineno, slice, line type, text) records in ascending line order.  The lines
\* from the node's first line up to the diagnostic's line are CONTEXT, the
\* diagnostic's own line is ERROR with the slice [column, end_column); a line
\* the buffer does not hold is not planned.
RenderMessage(msg, node, lines) ==
    LET line == GetAttr(msg, "line")
        ctx  == { n \in node.fromlineno..(line - 1) : n >= 1 /\ n <= Len(lines) }
        from == IF ctx = {} THEN line ELSE node.fromlineno
        plan == [ i \in 1..(line - from + 1) |->
                    LET n == from + i - 1 IN
                    IF n = line
                    THEN [lineno |-> Some(n), linetype |-> "ERROR",
                          slice |-> [start |-> Some(GetAttr(msg, "column")),
                                     stop |-> GetAttr(msg, "end_column")],
                          text |-> lines[n]]
                    ELSE [lineno |-> Some(n), linetype |-> "CONTEXT",
                          slice |-> [start |-> NONE, stop |-> NONE],
                          text |-> lines[n]] ]
    IN  IF line < 1 \/ line > Len(lines) THEN <<>> ELSE plan

RECURSIVE ConcatLines(_)
ConcatLines(plan) ==
    IF plan = <<>> THEN <<>>
    ELSE AddLine(Head(plan).lineno, Head(plan).linetype, Head(plan).slice,
                 Head(plan).text) \o ConcatLines(Tail(plan))

\* _build_snippet
BuildSnippet(msg, node, lines) == ConcatLines(RenderMessage(msg, node, lines))

----------------------------------------------------------------------------
(* The reporter's state and its aggregation operations *)

\* defaultdict(list): the value a lookup of key f returns
Lookup(d, f) == IF f \in DOMAIN d THEN d[f] ELSE <<>>

\* defaultdict(list): the dict after a lookup of key f (a missing key is added)
Touch(d, f) == [k \in DOMAIN d \cup {f} |-> Lookup(d, k)]

\* d[f] = val
Store(d, f, val) == [k \in DOMAIN d \cup {f} |-> IF k = f THEN val ELSE Lookup(d, k)]

\* faulty variant: the file's list is reset on every switch
EnsureFileReset(d, f) == Store(d, f, <<>>)

\* on_set_current_module: a file not yet in self.messages gets an empty list
EnsureFile(d, f) == IF f \notin DOMAIN d THEN Store(d, f, <<>>) ELSE d

\* faulty variant: any(self.messages), true as soon as a key exists
HasMessagesAnyKey(d) == DOMAIN d # {}

\* has_messages: any(messages for messages in self.messages.values()), a list
\* being true when it is not empty
HasMessages(d) == \E f \in DOMAIN d : Len(d[f]) > 0

NoProbe == [applied |-> FALSE]

\* pyta_number_of_messages: an integer or float("inf")
Number(n) == [inf |-> FALSE, n |-> n]
Infinity == [inf |-> TRUE, n |-> 0]

\* the record of an operation: its name, how it ended ("ok", "noop": it
\* returned without changing the reporter, "raised"), and for print_messages
\* its level, the configured maximum and the report written to self.out
Done(name, outcome) ==
    [name |-> name, outcome |-> outcome, out |-> <<>>, level |-> "",
     max |-> Number(0)]

\* an exception a handler raises propagates to the host, which ends the run:
\* no further call reaches the reporter
Running == op.outcome # "raised"

----------------------------------------------------------------------------
(* The output destination *)

\* OUTPUT_FILENAME of PlainReporter
OUTPUT_FILENAME == "pyta_report.txt"

\* a path is the sequence of its components; the host's file system: "~" is
\* the user's home, "outdir" is a directory, nothing can be created under "ro"
ExpandUser(path) ==
    IF Len(path) >= 1 /\ path[1] = "~" THEN <<"home">> \o Tail(path) ELSE path
IsDir(path) == path \in {<<"outdir">>, <<"home">>}
Join(path, name) == Append(path, name)
Writable(path) == path[1] # "ro"

\* the values of the parameter out of set_output: None, a str, an IO object
OutNone == [type |-> "None", path |-> <<>>]
OutStr(path) == [type |-> "str", path |-> path]
OutIO == [type |-> "IO", path |-> <<>>]
OutArgs == {OutNone, OutStr(<<"-">>), OutStr(<<"~", "report.txt">>),
            OutStr(<<"outdir">>), OutStr(<<"ro", "report.txt">>), OutIO}

\* the values of self.out: sys.stdout, the IO object of the caller, the n-th
\* file set_output opened
Stdout == [kind |-> "stdout", n |-> 0]
CallerStream == [kind |-> "stream", n |-> 0]
OpenedFile(n) == [kind |-> "file", n |-> n]

\* the stream is closed
IsClosed(stream) ==
    IF stream.kind = "file" THEN opened[stream.n].closed
    ELSE stream.kind \in closed_streams

\* the file name set_output opens for the str out
ResolvePath(path) ==
    LET expanded == ExpandUser(path) IN
    IF IsDir(expanded) THEN Join(expanded, OUTPUT_FILENAME) ELSE expanded

\* the reporter after __init__: BaseReporter writes to sys.stdout
InitOutput ==
    /\ out = Stdout
    /\ should_close_out = FALSE
    /\ opened = <<>>
    /\ closed_streams = {}

\* set_output(out)
SetOutput(arg) ==
    /\ Running
    /\ IF arg.type = "None" \/ (arg.type = "str" /\ arg.path = <<"-">>)
       THEN /\ out' = Stdout
            /\ op' = Done("set_output", "ok")
            /\ UNCHANGED <<should_close_out, opened>>
       ELSE IF arg.type = "str"
       THEN /\ Len(opened) < MaxOpens
            /\ IF Writable(ResolvePath(arg.path))
               THEN \* open(out, "w") makes a new file object, also for a path
                    \* that is open already
                    /\ opened' = Append(opened, [path |-> ResolvePath(arg.path),
                                                 closed |-> FALSE])
                    /\ out' = OpenedFile(Len(opened) + 1)
                    /\ should_close_out' = TRUE
                    /\ op' = Done("set_output", "ok")
               ELSE \* open raises before self.out is assigned
                    /\ op' = Done("set_output", "raised")
                    /\ UNCHANGED <<out, should_close_out, opened>>
       ELSE /\ out' = CallerStream
            /\ op' = Done("set_output", "ok")
            /\ UNCHANGED <<should_close_out, opened>>
    /\ UNCHANGED <<messages, source_lines, module_name, current_file, next_uid,
                   recorded_in, probe, closed_streams>>

\* self.out.close(): closing a closed stream does nothing
CloseOut ==
    IF out.kind = "file"
    THEN /\ opened' = [opened EXCEPT ![out.n].closed = TRUE]
         /\ UNCHANGED closed_streams
    ELSE /\ closed_streams' = closed_streams \cup {out.kind}
         /\ UNCHANGED opened

\* on_close(stats, previous_stats)
OnClose ==
    /\ Running
    /\ IF should_close_out THEN CloseOut ELSE UNCHANGED <<opened, closed_streams>>
    /\ op' = Done("on_close", "ok")
    /\ UNCHANGED <<messages, source_lines, module_name, current_file, next_uid,
                   recorded_in, probe, out, should_close_out>>

\* __init__
Init ==
    /\ messages = [k \in {} |-> <<>>]
    /\ source_lines = <<>>
    /\ module_name = ""
    /\ current_file = ""
    /\ next_uid = 1
    /\ recorded_in = [u \in {} |-> ""]
    /\ op = Done("init", "ok")
    /\ probe = NoProbe
    /\ InitOutput

\* handle_message(msg)
HandleMessage(v) ==
    /\ Running
    /\ next_uid <= MaxMsgs
    /\ messages' = Store(messages, current_file,
                         Append(Lookup(messages, current_file), Message(v, next_uid)))
    /\ recorded_in' = [u \in DOMAIN recorded_in \cup {next_uid} |->
                         IF u = next_uid THEN current_file ELSE recorded_in[u]]
    /\ next_uid' = next_uid + 1
    /\ op' = Done("handle_message", "ok")
    /\ UNCHANGED <<source_lines, module_name, current_file, probe>>
    /\ UNCHANGED outputVars

\* the test of handle_node: the last message of the list has the definition's id
MatchesLast(curr_messages, msgid) ==
    /\ Len(curr_messages) >= 1
    /\ GetAttr(curr_messages[Len(curr_messages)], "msg_id") = msgid

\* faulty variant: the NO_SNIPPET test is missing
SnippetForSentinelOnly(msg, node, lines) ==
    IF StartsWith(GetAttr(msg, "msg"), ModuleErrorSentinel)
    THEN <<>>
    ELSE BuildSnippet(msg, node, lines)

\* the snippet handle_node attaches to msg
SnippetFor(msg, node, lines) ==
    IF GetAttr(msg, "symbol") \in NO_SNIPPET
       \/ StartsWith(GetAttr(msg, "msg"), ModuleErrorSentinel)
    THEN <<>>
    ELSE BuildSnippet(msg, node, lines)

\* faulty variant: the augmented message is appended instead of replacing the last one
AugmentedAppend(curr_messages, msgid, node, lines) ==
    IF MatchesLast(curr_messages, msgid)
    THEN LET msg == curr_messages[Len(curr_messages)]
         IN  Append(curr_messages, NewMessage(msg, node, SnippetFor(msg, node, lines)))
    ELSE curr_messages

\* the list handle_node leaves behind
Augmented(curr_messages, msgid, node, lines) ==
    IF MatchesLast(curr_messages, msgid)
    THEN LET msg == curr_messages[Len(curr_messages)]
         IN  [curr_messages EXCEPT
                ![Len(curr_messages)] = NewMessage(msg, node, SnippetFor(msg, node, lines))]
    ELSE curr_messages

RECURSIVE SumWraps(_)
SumWraps(list) == IF list = <<>> THEN 0 ELSE WrapDepth(Head(list)) + SumWraps(Tail(list))

RECURSIVE SumOver(_, _)
SumOver(d, keys) ==
    IF keys = {} THEN 0
    ELSE LET k == CHOOSE k \in keys : TRUE
         IN  SumWraps(d[k]) + SumOver(d, keys \ {k})

\* NewMessage layers built so far
TotalWraps == SumOver(messages, DOMAIN messages)

\* handle_node(msg_definition, node)
HandleNode(msgid, node) ==
    LET curr_messages == Lookup(messages, current_file)
        hit == MatchesLast(curr_messages, msgid)
    IN  /\ Running
        /\ hit => TotalWraps < MaxWrap
        /\ messages' = Store(messages, current_file,
                             Augmented(curr_messages, msgid, node, source_lines))
        /\ op' = Done("handle_node", IF hit THEN "ok" ELSE "noop")
        /\ UNCHANGED <<source_lines, module_name, current_file, next_uid,
                       recorded_in, probe>>
        /\ UNCHANGED outputVars

\* on_set_current_module(module, filepath); filepath is Optional
OnSetCurrentModule(module, filepath) ==
    LET path == IF FileExists(module) /\ IsNone(filepath) THEN Some(module)
                ELSE filepath
    IN  IF IsNone(path)
        THEN /\ Running
             /\ op' = Done("on_set_current_module", "noop")
             /\ UNCHANGED <<messages, source_lines, module_name, current_file,
                            next_uid, recorded_in, probe, out, should_close_out,
                            opened, closed_streams>>
        ELSE /\ Running
             /\ module_name' = module
             /\ current_file' = Val(path)
             /\ messages' = EnsureFile(messages, Val(path))
             /\ IF FileReadable(Val(path))
                THEN /\ source_lines' = [i \in 1..Len(FileRawLines(Val(path))) |->
                                           RStripNewline(FileRawLines(Val(path))[i])]
                     /\ op' = Done("on_set_current_module", "ok")
                ELSE \* open() or readlines() raises: the buffer is not assigned
                     /\ source_lines' = source_lines
                     /\ op' = Done("on_set_current_module", "raised")
             /\ UNCHANGED <<next_uid, recorded_in, probe, out, should_close_out,
                            opened, closed_streams>>

----------------------------------------------------------------------------
(* Grouping and the plain-text report *)

\* faulty variant: the message is put in front of its group
DictPrepend(d, key, msg) ==
    IF \E i \in 1..Len(d) : d[i].key = key
    THEN [i \in 1..Len(d) |->
            IF d[i].key = key THEN [d[i] EXCEPT !.val = <<msg>> \o @] ELSE d[i]]
    ELSE Append(d, [key |-> key, val |-> <<msg>>])

\* d[key].append(msg) on a defaultdict(list) kept in insertion order
DictAppend(d, key, msg) ==
    IF \E i \in 1..Len(d) : d[i].key = key
    THEN [i \in 1..Len(d) |->
            IF d[i].key = key THEN [d[i] EXCEPT !.val = Append(@, msg)] ELSE d[i]]
    ELSE Append(d, [key |-> key, val |-> <<msg>>])

\* faulty variant: only the symbol is looked up
IsErrorCheckBySymbol(msg) == GetAttr(msg, "symbol") \in ERROR_CHECKS

\* the test of group_messages: the message is a code error
IsErrorCheck(msg) ==
    GetAttr(msg, "msg_id") \in ERROR_CHECKS \/ GetAttr(msg, "symbol") \in ERROR_CHECKS

RECURSIVE GroupLoop(_, _)
GroupLoop(list, acc) ==
    IF list = <<>> THEN acc
    ELSE LET msg == Head(list) IN
         IF IsErrorCheck(msg)
         THEN GroupLoop(Tail(list),
                        [acc EXCEPT !.error = DictAppend(@, GetAttr(msg, "msg_id"), msg)])
         ELSE GroupLoop(Tail(list),
                        [acc EXCEPT !.style = DictAppend(@, GetAttr(msg, "msg_id"), msg)])

\* group_messages: [error |-> error_msgs_by_type, style |-> style_msgs_by_type]
GroupMessages(list) == GroupLoop(list, [error |-> <<>>, style |-> <<>>])

\* the header of a rule group carries the "(First M shown)" note
ShowsNote(max, n) == max # Number(0) /\ max # Infinity /\ max.n < n

\* the loop over a group's messages stops before index i (0-based)
BreaksAt(max, i) == max # Number(0) /\ ~max.inf /\ i = max.n

\* how many messages of a group of n the loop reaches
Shown(max, n) ==
    IF \E i \in 0..(n - 1) : BreaksAt(max, i)
    THEN CHOOSE i \in 0..(n - 1) : BreaksAt(max, i)
    ELSE n

\* the text of one occurrence: "[Line l] first line of the message", snippet
Occurrence(msg) ==
    [kind |-> "occurrence", line |-> GetAttr(msg, "line"),
     text |-> FirstLine(GetAttr(msg, "msg")), snippet |-> GetAttr(msg, "snippet")]

\* the header line of a rule group
Header(key, group, max) ==
    [kind |-> "header", msg_id |-> key, symbol |-> GetAttr(group[1], "symbol"),
     count |-> Len(group), note |-> IF ShowsNote(max, Len(group)) THEN Some(max.n) ELSE NONE]

\* _colour_messages_by_type: the text, or raised when msg.snippet does not
\* resolve for a message the loop reaches
ColourMessagesByType(d, max) ==
    LET reached(i) == SubSeq(d[i].val, 1, Shown(max, Len(d[i].val)))
        fails == \E i \in 1..Len(d) : \E j \in 1..Len(reached(i)) :
                     ~HasAttr(reached(i)[j], "snippet")
        group(i) == <<Header(d[i].key, d[i].val, max)>>
                    \o [j \in 1..Len(reached(i)) |-> Occurrence(reached(i)[j])]
        Cat[i \in 0..Len(d)] == IF i = 0 THEN <<>> ELSE Cat[i - 1] \o group(i)
    IN  IF fails THEN [raised |-> TRUE, result |-> <<>>]
        ELSE [raised |-> FALSE, result |-> Cat[Len(d)]]

Title(file) == [kind |-> "title", file |-> file]
DateTime == [kind |-> "datetime"]
CodeErrTitle == [kind |-> "section", title |-> "code_err_title"]
StyleErrTitle == [kind |-> "section", title |-> "style_err_title"]
NoErrMessage == [kind |-> "no_err_message"]

\* one section of the report: its title, then its groups or no_err_message
Section(title, d, max) ==
    LET r == ColourMessagesByType(d, max)
    IN  [raised |-> r.raised,
         result |-> <<title>> \o (IF r.result # <<>> THEN r.result ELSE <<NoErrMessage>>)]

\* the text print_messages builds
Report(list, file, level, max) ==
    LET g == GroupMessages(list)
        e == Section(CodeErrTitle, g.error, max)
        s == IF level = "all" THEN Section(StyleErrTitle, g.style, max)
             ELSE [raised |-> FALSE, result |-> <<>>]
    IN  [raised |-> e.raised \/ s.raised,
         result |-> <<Title(file), DateTime>> \o e.result \o s.result]

Levels == {"all", "errors"}

\* the values of pyta_number_of_messages the runs are configured with
MaxMessages == {Number(n) : n \in 0..MaxMsgs} \cup {Infinity}

\* print_messages(level), with pyta_number_of_messages = max
PrintMessages(level, max) ==
    LET r == Report(Lookup(messages, current_file), current_file, level, max)
        \* writeln and flush raise ValueError on a closed stream
        fails == r.raised \/ IsClosed(out)
    IN  /\ Running
        /\ messages' = Touch(messages, current_file)
        /\ op' = [name |-> "print_messages",
                  outcome |-> IF fails THEN "raised" ELSE "ok",
                  out |-> IF fails THEN <<>> ELSE r.result,
                  level |-> level, max |-> max]
        /\ UNCHANGED <<source_lines, module_name, current_file, next_uid,
                       recorded_in, probe>>
        /\ UNCHANGED outputVars

\* the calls that build the reporter's lists: handle_message, handle_node and
\* on_set_current_module, in any order
NextAggregator ==
    \/ \E v \in MessageValues : HandleMessage(v)
    \/ \E id \in MsgIds, node \in Nodes : HandleNode(id, node)
    \/ \E e \in ModuleEvents : OnSetCurrentModule(e[1], e[2])

\* the reporter while it collects messages
SpecAggregator == Init /\ [][NextAggregator]_vars

\* the calls that build the lists and print the report to sys.stdout
Next ==
    \/ NextAggregator
    \/ \E level \in Levels, max \in MaxMessages : PrintMessages(level, max)

Spec == Init /\ [][Next]_vars

\* the calls of a run that sets its output destination: messages are
\* recorded and never augmented, reports are printed, the destination is set
\* and the reporter is closed, in any order
NextOutput ==
    \/ \E v \in MessageValues : HandleMessage(v)
    \/ \E level \in Levels, max \in MaxMessages : PrintMessages(level, max)
    \/ \E arg \in OutArgs : SetOutput(arg)
    \/ OnClose

SpecOutput == Init /\ [][NextOutput]_vars

----------------------------------------------------------------------------
(* _add_line on drawn inputs *)

\* the lines drawn: every string of at most three of these characters
LineChars == {" ", "a", "b"}
Lines == UNION { [1..n -> LineChars] : n \in 0..3 }
\* a column is absent or a natural number, possibly beyond the end of the line
SliceBounds == {NONE} \cup {Some(c) : c \in 0..MaxCol}
LineNumbers == {NONE, Some(7), Some(12)}

InitAddLine ==
    /\ messages = [k \in {} |-> <<>>]
    /\ source_lines = <<>>
    /\ module_name = ""
    /\ current_file = ""
    /\ next_uid = 1
    /\ recorded_in = [u \in {} |-> ""]
    /\ op = Done("init", "ok")
    /\ InitOutput
    /\ probe \in [applied : {FALSE}, lineno : LineNumbers, linetype : LineTypes,
                   slice : [start : SliceBounds, stop : SliceBounds],
                   text : Lines, result : {<<>>}]

\* self._add_line(lineno, linetype, slice_, text) on the drawn inputs
ApplyAddLine ==
    /\ ~probe.applied
    /\ probe' = [probe EXCEPT !.applied = TRUE,
                              !.result = AddLine(probe.lineno, probe.linetype,
                                                 probe.slice, probe.text)]
    /\ UNCHANGED <<messages, source_lines, module_name, current_file, next_uid,
                   recorded_in, op, out, should_close_out, opened, closed_streams>>

SpecAddLine == InitAddLine /\ [][ApplyAddLine]_vars

----------------------------------------------------------------------------
(* Properties of the aggregator *)

\* every file the model can name
AllFiles == {"", "a.py", "cfg", "nx.py"}

\* the entries of all lists, as (file, index) places
Places == { <<f, i>> \in AllFiles \X (1..MaxMsgs + 1) : i <= Len(Lookup(messages, f)) }
Entry(pl) == Lookup(messages, pl[1])[pl[2]]

\* what one handle_node(id, node) step must leave alone, and what it replaces
HandleNodeFrame(id, node) ==
    LET cur  == Lookup(messages, current_file)
        cur2 == Lookup(messages', current_file)
        n    == Len(cur)
    IN  /\ current_file' = current_file
        /\ source_lines' = source_lines
        /\ module_name' = module_name
        /\ \A f \in AllFiles : Len(Lookup(messages', f)) = Len(Lookup(messages, f))
        /\ \A f \in AllFiles : \A i \in 1..Len(Lookup(messages, f)) :
              (f # current_file \/ i # n) => Lookup(messages', f)[i] = Lookup(messages, f)[i]
        /\ IF n = 0 \/ GetAttr(cur[n], "msg_id") # id
           THEN cur2 = cur
           ELSE /\ cur2[n].kind = "NewMessage"
                /\ cur2[n].message = cur[n]
                /\ cur2[n].node = node
                /\ "snippet" \in DOMAIN cur2[n]

\* C1: a handle_node step leaves the current file, the source buffer, the
\* length of every file's list and every entry but the last one of the current
\* file unchanged; it changes no entry at all when the current list is empty or
\* its last entry has another msg_id, and otherwise replaces the last entry by
\* a NewMessage that carries that entry, the node and a snippet.
C1_HandleNodeFrame ==
    [][\A id \in MsgIds, node \in Nodes :
          HandleNode(id, node) => HandleNodeFrame(id, node)]_vars

\* a handle_node step has just replaced the last of several entries
C1_Witness ==
    /\ op.name = "handle_node" /\ op.outcome = "ok"
    /\ Len(Lookup(messages, current_file)) >= 2
    /\ Lookup(messages, current_file)[Len(Lookup(messages, current_file))].kind = "NewMessage"

\* no entry carries more than one NewMessage layer
AugmentedAtMostOnce == \A pl \in Places : WrapDepth(Entry(pl)) <= 1

\* C2: a handle_node call that directly follows a handle_node call which
\* augmented the last entry, and names the same rule, changes nothing; and no
\* diagnostic is ever augmented more than once.
C2_AugmentationIdempotent ==
    [][/\ \A id \in MsgIds, node \in Nodes :
            ( /\ op.name = "handle_node" /\ op.outcome = "ok"
              /\ MatchesLast(Lookup(messages, current_file), id)
              /\ HandleNode(id, node) )
            => messages' = messages
       /\ AugmentedAtMostOnce']_vars

RECURSIVE Layers(_)
\* the NewMessage layers of an entry, outermost first
Layers(m) == IF m.kind = "NewMessage" THEN <<m>> \o Layers(m.message) ELSE <<>>

\* C3: every snippet attached to a diagnostic whose symbol is in NO_SNIPPET,
\* or whose text starts with "Invalid module", is the empty string.
C3_NoSnippetIsEmpty ==
    \A pl \in Places :
        (GetAttr(Entry(pl), "symbol") \in NO_SNIPPET
         \/ StartsWith(GetAttr(Entry(pl), "msg"), ModuleErrorSentinel))
        => \A k \in 1..Len(Layers(Entry(pl))) : Layers(Entry(pl))[k].snippet = <<>>

\* a NO_SNIPPET diagnostic has just been augmented while the buffer holds its
\* line, and a sentinel diagnostic is augmented as well
C3_Witness ==
    LET cur == Lookup(messages, current_file) IN
    /\ op.name = "handle_node" /\ op.outcome = "ok"
    /\ Len(cur) = 2
    /\ cur[2].kind = "NewMessage"
    /\ GetAttr(cur[2], "symbol") \in NO_SNIPPET
    /\ BuildSnippet(cur[2].message, cur[2].node, source_lines) # <<>>
    /\ cur[1].kind = "NewMessage"
    /\ StartsWith(GetAttr(cur[1], "msg"), ModuleErrorSentinel)

\* every group of dictionary d, as (group index, position) places
GroupPlaces(d) == { <<i, j>> \in (1..Len(d)) \X (1..MaxMsgs + 1) : j <= Len(d[i].val) }

RECURSIVE WithId(_, _)
\* the messages of list with msg_id id, in list order
WithId(list, id) ==
    IF list = <<>> THEN <<>>
    ELSE IF GetAttr(Head(list), "msg_id") = id
         THEN <<Head(list)>> \o WithId(Tail(list), id)
         ELSE WithId(Tail(list), id)

\* group_messages(list) holds each message once, under its msg_id, in order
PartitionOf(list) ==
    LET g == GroupMessages(list)
        occ(m) == Cardinality({ p \in GroupPlaces(g.error) : g.error[p[1]].val[p[2]] = m })
                  + Cardinality({ p \in GroupPlaces(g.style) : g.style[p[1]].val[p[2]] = m })
    IN  /\ \A k \in 1..Len(list) : occ(list[k]) = 1
        /\ Cardinality(GroupPlaces(g.error)) + Cardinality(GroupPlaces(g.style)) = Len(list)
        /\ \A d \in {g.error, g.style} : \A i \in 1..Len(d) :
              /\ d[i].val = WithId(list, d[i].key)
              /\ \A j \in 1..Len(d) : d[j].key = d[i].key => j = i

\* C4: for every file's list, group_messages puts each message in exactly one
\* group of the two mappings, the group of its own msg_id, and each group
\* keeps the order of the list.
C4_PartitionTotalStable == \A f \in DOMAIN messages : PartitionOf(messages[f])

\* a list with two messages of one rule is grouped
C4_Witness ==
    \E f \in DOMAIN messages :
        /\ Len(messages[f]) = 2
        /\ GetAttr(messages[f][1], "msg_id") = GetAttr(messages[f][2], "msg_id")
        /\ messages[f][1] # messages[f][2]

Keys(d) == { d[i].key : i \in 1..Len(d) }
Members(d) == { d[p[1]].val[p[2]] : p \in GroupPlaces(d) }

\* C5: no msg_id is a key of both mappings; a message is in the errors mapping
\* when its msg_id or its symbol is in ERROR_CHECKS and in the style mapping
\* otherwise; so two messages of one rule share their bucket.
C5_BucketByRule ==
    \A f \in DOMAIN messages :
        LET g == GroupMessages(messages[f]) IN
        /\ Keys(g.error) \cap Keys(g.style) = {}
        /\ \A k \in 1..Len(messages[f]) :
              LET m == messages[f][k] IN
              IF GetAttr(m, "msg_id") \in ERROR_CHECKS \/ GetAttr(m, "symbol") \in ERROR_CHECKS
              THEN m \in Members(g.error) /\ m \notin Members(g.style)
              ELSE m \in Members(g.style) /\ m \notin Members(g.error)

\* one list holds a message classified by its msg_id alone (E0001) and a
\* style message
C5_Witness ==
    \E f \in DOMAIN messages :
        /\ \E k \in 1..Len(messages[f]) : GetAttr(messages[f][k], "msg_id") \in ERROR_CHECKS
        /\ GroupMessages(messages[f]).style # <<>>

\* C6: every recorded diagnostic is in exactly one place, in the list of the
\* file that was current when it was recorded, and every list is in
\* recording order (so a list survives switching away and back).
C6_OneListPerDiagnostic ==
    /\ \A u \in 1..(next_uid - 1) :
          /\ Cardinality({ pl \in Places : GetAttr(Entry(pl), "uid") = u }) = 1
          /\ \A pl \in Places : GetAttr(Entry(pl), "uid") = u => pl[1] = recorded_in[u]
    /\ \A f \in DOMAIN messages : \A i, j \in 1..Len(messages[f]) :
          i < j => GetAttr(messages[f][i], "uid") < GetAttr(messages[f][j], "uid")

\* a.py got a diagnostic, then cfg got one, and a.py is current again
C6_Witness ==
    /\ current_file = "a.py"
    /\ op.name = "on_set_current_module" /\ op.outcome = "ok"
    /\ Len(Lookup(messages, "a.py")) = 1
    /\ Len(Lookup(messages, "cfg")) = 1
    /\ GetAttr(Lookup(messages, "a.py")[1], "uid") < GetAttr(Lookup(messages, "cfg")[1], "uid")

\* the path on_set_current_module(module, filepath) is to switch to
TargetPath(module, filepath) ==
    IF IsNone(filepath) /\ FileExists(module) THEN Some(module) ELSE filepath

\* C7: on_set_current_module with no path, or with a path that cannot be
\* read, raises nothing and leaves current_file, module_name, source_lines
\* and messages as they were; with a readable path, current_file becomes the
\* path and source_lines the lines of that file.
C7_SwitchFile ==
    [][\A e \in ModuleEvents :
          OnSetCurrentModule(e[1], e[2]) =>
            LET path == TargetPath(e[1], e[2]) IN
            IF ~IsNone(path) /\ FileReadable(Val(path))
            THEN /\ current_file' = Val(path)
                 /\ source_lines' = [i \in 1..Len(FileRawLines(Val(path))) |->
                                       RStripNewline(FileRawLines(Val(path))[i])]
            ELSE /\ op'.outcome # "raised"
                 /\ UNCHANGED <<messages, source_lines, module_name, current_file>>]_vars

----------------------------------------------------------------------------
(* Properties of the report *)

\* the position of token tok in text report, 0 when it is not there
IndexOf(report, tok) ==
    IF \E i \in 1..Len(report) : report[i] = tok
    THEN CHOOSE i \in 1..Len(report) : report[i] = tok /\ \A j \in 1..(i - 1) : report[j] # tok
    ELSE 0

\* the tokens of kind k that directly follow position i
RunAfter(report, i, kinds) ==
    LET stop == IF \E j \in (i + 1)..Len(report) : report[j].kind \notin kinds
                THEN CHOOSE j \in (i + 1)..Len(report) :
                        /\ report[j].kind \notin kinds
                        /\ \A k \in (i + 1)..(j - 1) : report[k].kind \in kinds
                ELSE Len(report) + 1
    IN  SubSeq(report, i + 1, stop - 1)

\* the body of the section under the given title: what follows the title up
\* to the next section title
SectionBody(report, title) ==
    RunAfter(report, IndexOf(report, title), {"header", "occurrence", "no_err_message"})

\* what the report shows of a message: its line, the first line of its text
\* and its snippet
Shows(msg) ==
    [kind |-> "occurrence", line |-> GetAttr(msg, "line"),
     text |-> FirstLine(GetAttr(msg, "msg")),
     snippet |-> IF HasAttr(msg, "snippet") THEN GetAttr(msg, "snippet") ELSE <<"?">>]

\* the section body renders group grp (key, val) as the truncation law says
GroupRendered(body, grp, max) ==
    LET n == Len(grp.val)
        truncates == ~max.inf /\ 0 < max.n /\ max.n < n
        m == IF truncates THEN max.n ELSE n
    IN  \E h \in 1..Len(body) :
          /\ body[h].kind = "header"
          /\ body[h].msg_id = grp.key
          /\ \A h2 \in 1..Len(body) :
                (body[h2].kind = "header" /\ body[h2].msg_id = grp.key) => h2 = h
          /\ body[h].count = n
          /\ body[h].note = (IF truncates THEN Some(max.n) ELSE NONE)
          /\ RunAfter(body, h, {"occurrence"}) = [j \in 1..m |-> Shows(grp.val[j])]

\* every group of the sections print_messages(level) writes is rendered as
\* the truncation law says
TruncationLaw ==
    LET g == GroupMessages(Lookup(messages, current_file)) IN
    /\ \A i \in 1..Len(g.error) :
          GroupRendered(SectionBody(op.out, CodeErrTitle), g.error[i], op.max)
    /\ op.level = "all" =>
          \A i \in 1..Len(g.style) :
             GroupRendered(SectionBody(op.out, StyleErrTitle), g.style[i], op.max)

\* C8: after print_messages, a rule group of N messages with a maximum M,
\* 0 < M < N, shows exactly its first M messages under a header with the note
\* naming M; with M >= N, M = 0 or M infinite it shows all N and no note; the
\* header's count is N.
C8_TruncationLaw == op.name = "print_messages" => TruncationLaw

\* the law for the reports that were written
RenderedTruncationLaw ==
    (op.name = "print_messages" /\ op.outcome = "ok") => TruncationLaw

\* a written report that truncates a group
RenderedTruncationWitness ==
    /\ op.name = "print_messages" /\ op.outcome = "ok"
    /\ \E i \in 1..Len(op.out) : op.out[i].kind = "header" /\ op.out[i].note # NONE

HasKind(seq, k) == \E i \in 1..Len(seq) : seq[i].kind = k

\* a section body is the no-problems message alone for an empty bucket and
\* rule groups without that message otherwise
BodyFits(body, d) ==
    IF d = <<>> THEN body = <<NoErrMessage>>
    ELSE /\ ~HasKind(body, "no_err_message")
         /\ \A i \in 1..Len(d) : \E h \in 1..Len(body) :
               body[h].kind = "header" /\ body[h].msg_id = d[i].key
         /\ \A h \in 1..Len(body) : body[h].kind = "header" => body[h].msg_id \in Keys(d)

\* the report has the sections print_messages(level) is to write
ReportShape ==
    LET g == GroupMessages(Lookup(messages, current_file))
        e == IndexOf(op.out, CodeErrTitle)
        s == IndexOf(op.out, StyleErrTitle)
    IN  /\ e > 0
        /\ \A i \in 1..(e - 1) : op.out[i].kind \in {"title", "datetime"}
        /\ BodyFits(SectionBody(op.out, CodeErrTitle), g.error)
        /\ (s > 0) <=> (op.level = "all")
        /\ s > 0 => (s > e /\ BodyFits(SectionBody(op.out, StyleErrTitle), g.style))
        /\ s = 0 => Len(op.out) = e + Len(SectionBody(op.out, CodeErrTitle))

\* C9: print_messages always writes the code-errors title first, the style
\* title after it exactly when level is "all", and under each title the
\* no-problems message when the bucket is empty and the bucket's rule groups
\* otherwise.
C9_ReportSections == op.name = "print_messages" => ReportShape

\* the sections of the reports that were written
RenderedReportSections ==
    (op.name = "print_messages" /\ op.outcome = "ok") => ReportShape

\* a written report with an error group and an empty style section
RenderedSectionsWitness ==
    /\ op.name = "print_messages" /\ op.outcome = "ok" /\ op.level = "all"
    /\ HasKind(SectionBody(op.out, CodeErrTitle), "header")
    /\ SectionBody(op.out, StyleErrTitle) = <<NoErrMessage>>

----------------------------------------------------------------------------
(* Properties of _add_line *)

\* the start and the end of the effective slice, by the clamp rule: an absent
\* or out-of-range start is 0, an absent or out-of-range end is the length
ClampStart(start, L) ==
    IF IsNone(start) \/ Val(start) < 0 \/ Val(start) > L THEN 0 ELSE Val(start)
ClampEnd(stop, L) ==
    IF IsNone(stop) \/ Val(stop) < 0 \/ Val(stop) > L THEN L ELSE Val(stop)

\* C10: for an ERROR line and any slice, _add_line writes the gutter, then
\* line[0:s], line[s:e] and line[e:L], which make up the whole line, with
\* 0 <= s <= e <= L for the clamped s and e, and an overline as wide as the span.
C10_SliceClamped ==
    (probe.applied /\ probe.linetype = "ERROR") =>
        LET text == probe.text
            L == Len(text)
            s == ClampStart(probe.slice.start, L)
            e == ClampEnd(probe.slice.stop, L)
            prespace == Repeat(SPACE, PRE_LINE_NUM_SPACES + NUM_LENGTH_SPACES
                                      + AFTER_NUM_SPACES + OrDefault(probe.slice.start, 0))
        IN  /\ 0 <= s /\ s <= e /\ e <= L
            /\ probe.result =
                  AddLineNumber(probe.lineno, "ERROR")
                  \o SubSeq(text, 1, s) \o SubSeq(text, s + 1, e) \o SubSeq(text, e + 1, L)
                  \o <<BREAK>> \o prespace \o Repeat("~", e - s) \o <<BREAK>>

\* on slices with 0 <= start <= end <= L, absent bounds included and an end of
\* 0 excluded, _add_line does what C10 says
InRangeSliceRendered ==
    (/\ probe.applied /\ probe.linetype = "ERROR"
     /\ (IsNone(probe.slice.start) \/ (0 <= Val(probe.slice.start) /\ Val(probe.slice.start) <= Len(probe.text)))
     /\ (IsNone(probe.slice.stop) \/ (0 < Val(probe.slice.stop) /\ Val(probe.slice.stop) <= Len(probe.text)))
     /\ ClampStart(probe.slice.start, Len(probe.text)) <= ClampEnd(probe.slice.stop, Len(probe.text)))
    => C10_SliceClamped

----------------------------------------------------------------------------
(* Rendering a list that holds a message handle_node never reached *)

\* the groups print_messages(level) is to write for the current file
GroupsToWrite ==
    LET g == GroupMessages(Lookup(messages, current_file)) IN
    IF op.level = "all" THEN g.error \o g.style ELSE g.error

\* the report holds a header for every rule group and, for a maximum that
\* does not truncate, the occurrence of every message that has a snippet
HoldsTheRest ==
    \A i \in 1..Len(GroupsToWrite) :
       LET grp == GroupsToWrite[i] IN
       /\ \E h \in 1..Len(op.out) :
             op.out[h].kind = "header" /\ op.out[h].msg_id = grp.key
       /\ (op.max.inf \/ op.max.n = 0) =>
             \A j \in 1..Len(grp.val) :
                HasAttr(grp.val[j], "snippet") =>
                   \E o \in 1..Len(op.out) : op.out[o] = Shows(grp.val[j])

\* C11: print_messages completes without raising for any list of recorded
\* messages, messages handle_node never augmented included, and the report
\* holds every rule group and every occurrence that can be rendered.
C11_RenderNeverRaises ==
    op.name = "print_messages" => (op.outcome # "raised" /\ HoldsTheRest)

\* when every message of a written section was augmented, print_messages
\* completes and the report holds all of them
AugmentedListRendered ==
    (/\ op.name = "print_messages"
     /\ \A i \in 1..Len(GroupsToWrite) : \A j \in 1..Len(GroupsToWrite[i].val) :
           HasAttr(GroupsToWrite[i].val[j], "snippet"))
    => (op.outcome = "ok" /\ HoldsTheRest)

----------------------------------------------------------------------------
(* The life of the output destination *)

\* every file set_output opened is closed
AllOpenedClosed == \A i \in 1..Len(opened) : opened[i].closed

\* C12: when on_close has run, every file set_output opened from a path is
\* closed, after any number of reports and set_output calls; a stream the
\* reporter did not open (the caller's IO object, sys.stdout) is never
\* closed; a report is never written to a closed stream.
C12_OutputLifecycle ==
    /\ op.name = "on_close" => AllOpenedClosed
    /\ closed_streams = {}
    /\ (op.name = "print_messages" /\ op.outcome = "ok") => ~IsClosed(out)

\* on_close closes the file that is the destination when it runs
CurrentFileClosed ==
    (op.name = "on_close" /\ out.kind = "file") => opened[out.n].closed

\* while set_output was given no path, on_close closes nothing
NothingClosedWithoutPath == (opened = <<>>) => closed_streams = {}

\* nothing is written to a closed stream
NoWriteAfterClose ==
    (op.name = "print_messages" /\ op.outcome = "ok") => ~IsClosed(out)

\* print_messages has raised on a destination that on_close closed
WriteAfterCloseRaises ==
    /\ op.name = "print_messages" /\ op.outcome = "raised"
    /\ IsClosed(out)
    /\ \A i \in 1..Len(Lookup(messages, current_file)) :
          HasAttr(Lookup(messages, current_file)[i], "snippet")

----------------------------------------------------------------------------
(* has_messages *)

\* C13: in every state handle_message, handle_node and on_set_current_module
\* reach, has_messages is true exactly when some file's list holds a message;
\* keys with an empty list do not make it true, and a handle_node step leaves
\* its value as it was.
C13_HasMessages ==
    /\ [](HasMessages(messages) <=> Places # {})
    /\ [][(\E id \in MsgIds, node \in Nodes : HandleNode(id, node))
            => (HasMessages(messages') <=> HasMessages(messages))]_vars

\* handle_node on a file without messages and on_set_current_module have each
\* made a key with an empty list, and no message was recorded
C13_Witness ==
    /\ op.name = "handle_node"
    /\ {"", "a.py"} \subseteq DOMAIN messages
    /\ Places = {}
    /\ next_uid = 1

\* has_messages is true exactly when a message was recorded
TrueOnceRecorded == HasMessages(messages) <=> next_uid > 1

====
